---------------------------- MODULE Spec2Model ----------------------------
(***************************************************************************)
(* Model of scripts/build_swift_research_corpus.py: the corpus loader      *)
(* (load_jsonl), the domain classifier (paper_to_label), the training row  *)
(* synthesizer (build_training_rows) and the base merger (merge_into_base),*)
(* and of the fetch loop of scripts/fetch_openalex_atlas_papers.py.        *)
(*                                                                         *)
(* A Python str is a sequence of symbols.  A symbol is a whitespace        *)
(* character, a letter, a digit, a separator, or a fixed piece of text     *)
(* (a domain tag, a template literal) standing for its characters.  A dict *)
(* is a function whose domain is its set of keys.                          *)
(***************************************************************************)
EXTENDS Integers, Sequences, FiniteSets, TLC

(***************************************************************************)
(* str methods                                                             *)
(***************************************************************************)
Whitespace == {" ", "\n"}

\* str.lower() on one symbol
LowerSym(c) ==
    CASE c = "A" -> "a"
      [] c = "B" -> "b"
      [] c = "Travel" -> "travel"
      [] c = "Travel design brief: use evidence from '"
           -> "travel design brief: use evidence from '"
      [] c = "Research-backed travel design execution request: "
           -> "research-backed travel design execution request: "
      [] c = "Translate this scientific finding into Atlas travel design workflow now: "
           -> "translate this scientific finding into atlas travel design workflow now: "
      [] c = "Travel design neuro brief: use controlled novelty plus structured reflection to improve adaptability and protect long-term cognitive vitality."
           -> "travel design neuro brief: use controlled novelty plus structured reflection to improve adaptability and protect long-term cognitive vitality."
      [] c = "Emergency command brief: convert this evidence into a triage-stabilize-communicate-escalate protocol for immediate field execution."
           -> "emergency command brief: convert this evidence into a triage-stabilize-communicate-escalate protocol for immediate field execution."
      [] c = "Human problem-solving optimization brief: define biological and environmental conditions that maximize cognitive throughput under uncertainty."
           -> "human problem-solving optimization brief: define biological and environmental conditions that maximize cognitive throughput under uncertainty."
      [] c = "Innovation systems brief: translate this into a digital+physical prototype loop with safety gates and clear validation metrics."
           -> "innovation systems brief: translate this into a digital+physical prototype loop with safety gates and clear validation metrics."
      [] OTHER -> c

Lower(s) == [k \in 1..Len(s) |-> LowerSym(s[k])]

RECURSIVE LStrip(_)
LStrip(s) == IF s /= <<>> /\ Head(s) \in Whitespace THEN LStrip(Tail(s)) ELSE s

RECURSIVE RStrip(_)
RStrip(s) ==
    IF s /= <<>> /\ s[Len(s)] \in Whitespace
    THEN RStrip(SubSeq(s, 1, Len(s) - 1))
    ELSE s

Strip(s) == LStrip(RStrip(s))

\* dict.get(key, default)
GetOr(row, key, default) == IF key \in DOMAIN row THEN row[key] ELSE default

\* d[key] = value
Put(row, key, value) ==
    [f \in DOMAIN row \cup {key} |-> IF f = key THEN value ELSE row[f]]

(***************************************************************************)
(* JSON values of a raw record.  json.loads gives a str, an int, None or a *)
(* list; the value carries its type so that str(), int() and truthiness    *)
(* act on it as Python does.                                               *)
(***************************************************************************)
JStr(s) == [t |-> "str", s |-> s]
JInt(n) == [t |-> "int", n |-> n]
JNull == [t |-> "null"]
JList(l) == [t |-> "list", l |-> l]

\* bool(value)
Truthy(v) ==
    CASE v.t = "str" -> v.s /= <<>>
      [] v.t = "int" -> v.n /= 0
      [] v.t = "list" -> v.l /= <<>>
      [] OTHER -> FALSE

\* a or b
Or(a, b) == IF Truthy(a) THEN a ELSE b

\* row.get(key) on a raw record: None when the key is absent
GetJ(row, key) == IF key \in DOMAIN row THEN row[key] ELSE JNull

DigitSym == <<"0", "1", "2", "3", "4", "5", "6", "7", "8", "9">>

RECURSIVE StrOfNat(_)
StrOfNat(n) ==
    IF n < 10 THEN <<DigitSym[n + 1]>>
    ELSE StrOfNat(n \div 10) \o <<DigitSym[(n % 10) + 1]>>

\* str(n)
StrOfInt(n) == IF n < 0 THEN <<"-">> \o StrOfNat(0 - n) ELSE StrOfNat(n)

\* str(value); the text of a list is not modelled symbol by symbol
PyStr(v) ==
    CASE v.t = "str" -> v.s
      [] v.t = "int" -> StrOfInt(v.n)
      [] v.t = "null" -> <<"None">>
      [] OTHER -> <<"[...]">>

IsDigit(c) == \E d \in 1..10 : DigitSym[d] = c

DigitVal(c) == (CHOOSE d \in 1..10 : DigitSym[d] = c) - 1

RECURSIVE NatOfDigits(_)
NatOfDigits(s) ==
    IF s = <<>> THEN 0
    ELSE 10 * NatOfDigits(SubSeq(s, 1, Len(s) - 1)) + DigitVal(s[Len(s)])

AllDigits(s) == s /= <<>> /\ \A k \in 1..Len(s) : IsDigit(s[k])

\* int(value): [ok |-> TRUE, n |-> the integer], or the exception it raises
PyInt(v) ==
    CASE v.t = "int" -> [ok |-> TRUE, n |-> v.n, error |-> ""]
      [] v.t = "str" ->
           LET s == Strip(v.s)
               signed == s /= <<>> /\ Head(s) \in {"-", "+"}
               digits == IF signed THEN Tail(s) ELSE s
           IN  IF AllDigits(digits)
               THEN [ok |-> TRUE,
                     n |-> IF signed /\ Head(s) = "-"
                           THEN 0 - NatOfDigits(digits)
                           ELSE NatOfDigits(digits),
                     error |-> ""]
               ELSE [ok |-> FALSE, n |-> 0, error |-> "ValueError"]
      [] OTHER -> [ok |-> FALSE, n |-> 0, error |-> "TypeError"]

(***************************************************************************)
(* _normalize_keywords                                                     *)
(***************************************************************************)
RECURSIVE SplitCommas(_, _)
\* s.replace(';', ',').split(','), cur being the part read so far
SplitCommas(s, cur) ==
    IF s = <<>> THEN <<cur>>
    ELSE IF Head(s) \in {",", ";"} THEN <<cur>> \o SplitCommas(Tail(s), <<>>)
    ELSE SplitCommas(Tail(s), Append(cur, Head(s)))

RECURSIVE CleanParts(_)
\* the parts trimmed and lower-cased, the empty ones dropped
CleanParts(parts) ==
    IF parts = <<>> THEN <<>>
    ELSE (IF Strip(Head(parts)) /= <<>>
          THEN <<Lower(Strip(Head(parts)))>>
          ELSE <<>>) \o CleanParts(Tail(parts))

_normalize_keywords(value) ==
    CASE value.t = "list" ->
           CleanParts([k \in 1..Len(value.l) |-> PyStr(value.l[k])])
      [] value.t = "str" -> CleanParts(SplitCommas(value.s, <<>>))
      [] OTHER -> <<>>

(***************************************************************************)
(* load_jsonl: the Record Normalizer and the Corpus Deduplicator           *)
(***************************************************************************)
DefaultInsight ==
    <<"Evidence suggests structured execution improves outcomes under constraints.">>

DefaultActionHint ==
    <<"Define one concrete next step and execute within the next focused block.">>

DefaultSourceUrl == <<"https://doi.org/">>

\* title = str(row.get('title', '')).strip()
RawTitle(row) ==
    Strip(PyStr(IF "title" \in DOMAIN row THEN row.title ELSE JStr(<<>>)))

\* int(row.get('year', 0) or 0)
RawYear(row) ==
    PyInt(Or(IF "year" \in DOMAIN row THEN row.year ELSE JInt(0), JInt(0)))

\* not title or year <= 0: the record is skipped
IsDropped(title, year) == title = <<>> \/ year <= 0

\* f"paper-{abs(hash(title + str(year))) % 1_000_000}": the hash is kept
\* symbolic, as the text it hashes behind the symbol "#"
HashId(title, year) == <<"paper-", "#">> \o title \o StrOfInt(year)

OrDefault(s, default) == IF s = <<>> THEN default ELSE s

\* the normalized dict of a record that is kept
Normalized(row, title, year) ==
    LET domain == Lower(Strip(PyStr(Or(GetJ(row, "domain"), JStr(<<"execution">>)))))
    IN  [id |-> Strip(PyStr(Or(GetJ(row, "id"), JStr(HashId(title, year))))),
         title |-> title,
         year |-> year,
         domain |-> domain,
         actionable_insight |->
             OrDefault(Strip(PyStr(Or(GetJ(row, "actionable_insight"), JStr(<<>>)))),
                       DefaultInsight),
         action_hint |->
             OrDefault(Strip(PyStr(Or(GetJ(row, "action_hint"), JStr(<<>>)))),
                       DefaultActionHint),
         source_url |->
             OrDefault(Strip(PyStr(Or(Or(GetJ(row, "source_url"), GetJ(row, "doi")),
                                      JStr(<<>>)))),
                       DefaultSourceUrl),
         keywords |->
             OrDefault(_normalize_keywords(IF "keywords" \in DOMAIN row
                                           THEN row.keywords
                                           ELSE JList(<<>>)),
                       <<domain, <<"execution">>, <<"atlas">>>>)]

(***************************************************************************)
(* A source file is [exists, lines]; a line is blank, or text json.loads   *)
(* rejects ("bad"), or the text of one JSON object ("obj", with the record *)
(* it decodes to).  A line whose text holds the two characters \n is split *)
(* by the unescaping of line 75 into pieces json.loads rejects: it is a    *)
(* "bad" line.                                                             *)
(***************************************************************************)
BlankLine == [t |-> "blank"]
BadLine == [t |-> "bad"]
ObjLine(row) == [t |-> "obj", row |-> row]

RECURSIVE ReadLines(_, _)
\* lines 76..105 for one file: rows is the list built so far
ReadLines(lines, rows) ==
    IF lines = <<>> THEN [error |-> "", rows |-> rows]
    ELSE LET line == Head(lines) IN
         IF line.t = "blank" THEN ReadLines(Tail(lines), rows)
         ELSE IF line.t = "bad" THEN [error |-> "JSONDecodeError", rows |-> rows]
         ELSE LET title == RawTitle(line.row)
                  year == RawYear(line.row)
              IN  IF ~year.ok THEN [error |-> year.error, rows |-> rows]
                  ELSE IF IsDropped(title, year.n) THEN ReadLines(Tail(lines), rows)
                  ELSE ReadLines(Tail(lines),
                                 Append(rows, Normalized(line.row, title, year.n)))

RECURSIVE ReadPaths(_, _)
\* lines 72..105: every path in turn
ReadPaths(paths, rows) ==
    IF paths = <<>> THEN [error |-> "", rows |-> rows]
    ELSE IF ~Head(paths).exists THEN [error |-> "FileNotFoundError", rows |-> rows]
    ELSE LET got == ReadLines(Head(paths).lines, rows)
         IN  IF got.error /= "" THEN got ELSE ReadPaths(Tail(paths), got.rows)

\* key = (row['title'].lower(), row['year'])
DedupKey(row) == <<Lower(row.title), row.year>>

RECURSIVE DedupLoopFirstWins(_, _, _)
\* mutant of DedupLoop: a key already in the dict keeps its first record
DedupLoopFirstWins(rows, keys, dedup) ==
    IF rows = <<>> THEN [keys |-> keys, dedup |-> dedup]
    ELSE LET key == DedupKey(Head(rows)) IN
         DedupLoopFirstWins(Tail(rows),
                            IF key \in DOMAIN dedup THEN keys ELSE Append(keys, key),
                            IF key \in DOMAIN dedup
                            THEN dedup
                            ELSE Put(dedup, key, Head(rows)))

RECURSIVE DedupLoop(_, _, _)
\* lines 107..110: a dict keeps its keys in the order of their first insertion
DedupLoop(rows, keys, dedup) ==
    IF rows = <<>> THEN [keys |-> keys, dedup |-> dedup]
    ELSE LET key == DedupKey(Head(rows)) IN
         DedupLoop(Tail(rows),
                   IF key \in DOMAIN dedup THEN keys ELSE Append(keys, key),
                   Put(dedup, key, Head(rows)))

\* the code point of a character
Ord(c) ==
    CASE c = "\n" -> 10 [] c = " " -> 32 [] c = "A" -> 65 [] c = "B" -> 66
      [] c = "a" -> 97 [] c = "b" -> 98 [] OTHER -> 0

RECURSIVE StrLess(_, _)
\* s < t on str
StrLess(s, t) ==
    IF t = <<>> THEN FALSE
    ELSE IF s = <<>> THEN TRUE
    ELSE IF Head(s) = Head(t) THEN StrLess(Tail(s), Tail(t))
    ELSE Ord(Head(s)) < Ord(Head(t))

\* (-r['year'], r['title']) of a before that of b
SortsBefore(a, b) ==
    a.year > b.year \/ (a.year = b.year /\ StrLess(a.title, b.title))

RECURSIVE Insert(_, _)
Insert(sorted, r) ==
    IF sorted = <<>> THEN <<r>>
    ELSE IF SortsBefore(r, Head(sorted)) THEN <<r>> \o sorted
    ELSE <<Head(sorted)>> \o Insert(Tail(sorted), r)

RECURSIVE Sorted(_)
\* sorted(values, key=...): a stable sort
Sorted(values) ==
    IF values = <<>> THEN <<>>
    ELSE Insert(Sorted(SubSeq(values, 1, Len(values) - 1)), values[Len(values)])

load_jsonl(paths) ==
    LET got == ReadPaths(paths, <<>>)
        d == DedupLoop(got.rows, <<>>, <<>>)
    IN  IF got.error /= "" THEN [error |-> got.error, papers |-> <<>>]
        ELSE [error |-> "",
              papers |-> Sorted([k \in 1..Len(d.keys) |-> d.dedup[d.keys[k]]])]

(***************************************************************************)
(* Domain classifier                                                       *)
(***************************************************************************)
LABEL_MAP ==
    [d \in {"wealth", "travel", "mobility", "operations", "novelty", "exploration",
            "reflection", "safety", "resilience", "recovery", "health", "wellbeing",
            "neuroplasticity", "cognitive-aging", "brain-health", "cognitive-reserve",
            "execution", "productivity", "planning", "decision-quality", "motivation",
            "skill-building", "team-ops", "emergency-response",
            "emergency-preparedness", "emergency-management", "crisis-management",
            "crisis-planning", "incident-command", "human-problem-solving",
            "human-performance", "biological-performance",
            "environmental-performance", "problem-solving", "technology-innovation",
            "systems-innovation", "digital-innovation", "physical-innovation",
            "innovation"} |->
        CASE d = "wealth" -> "travel_design_revenue"
          [] d \in {"travel", "mobility", "operations", "novelty", "exploration"}
               -> "travel_design_journey_ops"
          [] d \in {"reflection", "planning", "decision-quality", "motivation",
                    "skill-building", "team-ops"}
               -> "travel_design_strategy"
          [] d \in {"safety", "resilience"} -> "travel_design_resilience"
          [] d \in {"recovery", "health", "wellbeing", "neuroplasticity",
                    "cognitive-aging", "brain-health", "cognitive-reserve"}
               -> "travel_design_recovery"
          [] d \in {"execution", "productivity"} -> "travel_design_execution"
          [] d \in {"emergency-response", "emergency-preparedness",
                    "emergency-management", "crisis-management", "crisis-planning",
                    "incident-command"}
               -> "travel_design_emergency_command"
          [] d \in {"human-problem-solving", "human-performance",
                    "biological-performance", "environmental-performance",
                    "problem-solving"}
               -> "travel_design_human_problem_solving"
          [] d \in {"technology-innovation", "systems-innovation",
                    "digital-innovation", "physical-innovation", "innovation"}
               -> "travel_design_tech_innovation"]

\* the string s is one of the literals of the set S
IsOneOf(s, S) == Len(s) = 1 /\ s[1] \in S

\* mutant of paper_to_label: the fallback is the label of the default domain
paper_to_label_execution(domain) ==
    IF IsOneOf(domain, DOMAIN LABEL_MAP)
    THEN <<LABEL_MAP[domain[1]]>>
    ELSE <<"travel_design_execution">>

paper_to_label(domain) ==
    IF IsOneOf(domain, DOMAIN LABEL_MAP)
    THEN <<LABEL_MAP[domain[1]]>>
    ELSE <<"travel_design_strategy">>

(***************************************************************************)
(* Training row synthesizer                                                *)
(***************************************************************************)
NeuroDomains ==
    {"travel", "mobility", "recovery", "health", "wellbeing", "skill-building",
     "motivation"}

EmergencyDomains ==
    {"emergency-response", "emergency-preparedness", "emergency-management",
     "crisis-management", "crisis-planning", "incident-command"}

HumanDomains ==
    {"human-problem-solving", "human-performance", "biological-performance",
     "environmental-performance", "problem-solving"}

InnovationDomains ==
    {"technology-innovation", "systems-innovation", "digital-innovation",
     "physical-innovation", "innovation"}

NeuroPrompt ==
    <<"Travel design neuro brief: use controlled novelty plus structured reflection to improve adaptability and protect long-term cognitive vitality.">>

EmergencyPrompt ==
    <<"Emergency command brief: convert this evidence into a triage-stabilize-communicate-escalate protocol for immediate field execution.">>

HumanPrompt ==
    <<"Human problem-solving optimization brief: define biological and environmental conditions that maximize cognitive throughput under uncertainty.">>

InnovationPrompt ==
    <<"Innovation systems brief: translate this into a digital+physical prototype loop with safety gates and clear validation metrics.">>

BasePrompts(row) ==
    << <<"Travel design brief: use evidence from '">> \o row.title
           \o <<"' to define one next field action for ">> \o row.domain \o <<".">>,
       <<"Research-backed travel design execution request: ">>
           \o row.actionable_insight,
       <<"Translate this scientific finding into Atlas travel design workflow now: ">>
           \o row.action_hint >>

\* mutant of BonusPrompts: the test of the last group is missing
BonusPromptsThreeGroups(domain) ==
    (IF IsOneOf(domain, NeuroDomains) THEN <<NeuroPrompt>> ELSE <<>>)
    \o (IF IsOneOf(domain, EmergencyDomains) THEN <<EmergencyPrompt>> ELSE <<>>)
    \o (IF IsOneOf(domain, HumanDomains) THEN <<HumanPrompt>> ELSE <<>>)

BonusPrompts(domain) ==
    (IF IsOneOf(domain, NeuroDomains) THEN <<NeuroPrompt>> ELSE <<>>)
    \o (IF IsOneOf(domain, EmergencyDomains) THEN <<EmergencyPrompt>> ELSE <<>>)
    \o (IF IsOneOf(domain, HumanDomains) THEN <<HumanPrompt>> ELSE <<>>)
    \o (IF IsOneOf(domain, InnovationDomains) THEN <<InnovationPrompt>> ELSE <<>>)

PaperPrompts(row) == BasePrompts(row) \o BonusPrompts(row.domain)

TrainingRow(row, prompt) ==
    [prompt |-> prompt,
     label |-> paper_to_label(row.domain),
     next_action |-> row.action_hint,
     paper_id |-> row.id,
     source_url |-> row.source_url]

PaperRows(row) ==
    [k \in 1..Len(PaperPrompts(row)) |-> TrainingRow(row, PaperPrompts(row)[k])]

RECURSIVE build_training_rows(_)
build_training_rows(rows) ==
    IF rows = <<>> THEN <<>>
    ELSE PaperRows(Head(rows)) \o build_training_rows(Tail(rows))


(***************************************************************************)
(* Base merger                                                             *)
(***************************************************************************)
\* mutant of NormKey: the key is trimmed and keeps its case
NormKeyKeepsCase(prompt) == Strip(prompt)

\* .strip().lower(): the merge key of a prompt
NormKey(prompt) == Lower(Strip(prompt))

HasNewline(s) == \E k \in 1..Len(s) : s[k] = "\n"

\* write_jsonl: one json.dumps(row) per line.  The file is kept as the rows
\* written; json.dumps writes a newline character of a string as the two
\* characters \n.
write_jsonl(rows) == [exists |-> TRUE, rows |-> rows]

\* lines 212..217.  The text is unescaped (every \n becomes a line break)
\* before it is split into lines, so a row holding a newline character in a
\* string comes back as pieces json.loads rejects.
ReadBase(file) ==
    IF ~file.exists THEN [error |-> "", rows |-> <<>>]
    ELSE IF \E k \in 1..Len(file.rows) :
                \E f \in DOMAIN file.rows[k] : HasNewline(file.rows[k][f])
         THEN [error |-> "JSONDecodeError", rows |-> <<>>]
         ELSE [error |-> "", rows |-> file.rows]

RECURSIVE IndexFromFirstWins(_, _, _)
\* mutant of IndexFrom: a key already in the index keeps its position
IndexFromFirstWins(rows, idx, index) ==
    IF idx > Len(rows) THEN index
    ELSE LET prompt == Lower(Strip(GetOr(rows[idx], "prompt", <<>>))) IN
         IndexFromFirstWins(rows, idx + 1,
                            IF prompt /= <<>> /\ prompt \notin DOMAIN index
                            THEN Put(index, prompt, idx)
                            ELSE index)

RECURSIVE IndexFrom(_, _, _)
\* lines 220..223 from position idx on (positions count from 1)
IndexFrom(rows, idx, index) ==
    IF idx > Len(rows) THEN index
    ELSE LET prompt == NormKey(GetOr(rows[idx], "prompt", <<>>)) IN
         IndexFrom(rows, idx + 1,
                   IF prompt /= <<>> THEN Put(index, prompt, idx) ELSE index)

\* prompt_to_index after the loop of lines 219..223
BuildIndex(rows) == IndexFrom(rows, 1, <<>>)

\* merged[idx].get(field) != row[field]
Differs(old, row, field) == field \notin DOMAIN old \/ old[field] /= row[field]

\* mutant of UpdateRow: next_action is not written
UpdateRowLabelOnly(old, row) ==
    IF Differs(old, row, "label") THEN Put(old, "label", row.label) ELSE old

\* mutant of UpdateRow: the matched row is replaced by a row built from the
\* generated one
UpdateRowReplaces(old, row) ==
    [prompt |-> row.prompt, label |-> row.label, next_action |-> row.next_action]

\* lines 233..238: the matched row after the two conditional writes
UpdateRow(old, row) ==
    LET r1 == IF Differs(old, row, "label") THEN Put(old, "label", row.label) ELSE old
    IN  IF Differs(r1, row, "next_action")
        THEN Put(r1, "next_action", row.next_action)
        ELSE r1

\* the flag changed of lines 232..238
Changed(old, row) == Differs(old, row, "label") \/ Differs(old, row, "next_action")

\* mutant of AppendedRow: the generated row is appended as it is, with its
\* provenance fields
AppendedRowWithProvenance(row) == row

\* lines 242..246: the row appended for a new key
AppendedRow(row) ==
    [prompt |-> row.prompt, label |-> row.label, next_action |-> row.next_action]


(***************************************************************************)
(* State                                                                   *)
(***************************************************************************)
VARIABLES
    inputs,            \* load_jsonl: the input files, in the order given
    loaded,            \* load_jsonl: what the call gave (an error or the papers)
    papers,            \* main: the corpus of the run
    training_rows,     \* main: build_training_rows(papers)
    base,              \* the base dataset file
    existing,          \* merge_into_base: the rows loaded from the file
    prompt_to_index,   \* merge_into_base: merge key -> position in merged
    merged,            \* merge_into_base: the rows to write back
    added,             \* merge_into_base: the count of rows appended
    updated,           \* merge_into_base: the count of updates
    pos,               \* merge_into_base: position of the loop of line 228
    ret,               \* what the last call of merge_into_base returned
    calls,             \* the number of merges run so far
    repeat,            \* the call running (or the last one) merges the same
                       \* rows as the call before it, which returned
    pc,                \* where the program is
    args,              \* fetcher: the command line (queries, pages, ...)
    query,             \* fetcher: position in queries of the loop of line 138
    page,              \* fetcher: the page of the loop of line 140
    dedup,             \* fetcher: (title.lower(), year) -> row
    requests,          \* fetcher: the number of calls of fetch_json so far
    last_event,        \* fetcher: the last of fetch_json and time.sleep to run
    outcome,           \* fetcher: how the last call of fetch_json ended
    procs,             \* concurrent merges: the locals of every process
    events             \* concurrent merges: the reads and writes, in order

vars ==
    <<inputs, loaded, papers, training_rows, base, existing, prompt_to_index,
      merged, added, updated, pos, ret, calls, repeat, pc,
      args, query, page, dedup, requests, last_event, outcome, procs, events>>

fetchVars == <<args, query, page, dedup, requests, last_event, outcome>>

raceVars == <<procs, events>>

loadVars == <<inputs, loaded>>

mergeLocals == <<existing, prompt_to_index, merged, added, updated, pos>>

mergeVars == <<base, existing, prompt_to_index, merged, added, updated, pos, ret,
               calls, repeat>>

(***************************************************************************)
(* Bounds and inputs                                                       *)
(***************************************************************************)
MaxLines == 3      \* lines over all the input files of one load
MaxPapers == 2     \* records of the input file of one merging run
MaxBase == 2       \* rows of the base file before the first merge
MaxCalls == 2      \* merges run one after the other on the same base file

SeqsUpTo(S, n) == UNION {[1..k -> S] : k \in 0..n}

File(lines) == [exists |-> TRUE, lines |-> lines]

MissingFile == [exists |-> FALSE, lines |-> <<>>]

NoResult == [error |-> "pending", papers |-> <<>>]

NoReturn == [status |-> "none", added |-> 0, updated |-> 0, total |-> 0]

\* raw records of the loader's inputs
LoadRecords ==
    {[title |-> JStr(<<"a">>), year |-> JInt(1)],
     [title |-> JStr(<<"A">>), year |-> JInt(1), domain |-> JStr(<<"Travel", " ">>),
      action_hint |-> JStr(<<"u">>), keywords |-> JStr(<<"a", ";", " ", ",", "B">>)],
     [title |-> JStr(<<" ", "a", " ">>), year |-> JStr(<<"1">>),
      actionable_insight |-> JStr(<<"i">>), doi |-> JStr(<<"d">>),
      keywords |-> JList(<<JStr(<<"B">>), JInt(2), JStr(<<" ">>)>>)],
     [title |-> JStr(<<"b">>), year |-> JInt(2), id |-> JStr(<<"w">>),
      source_url |-> JStr(<<"s">>), doi |-> JStr(<<"d">>)],
     [title |-> JStr(<<"a">>), year |-> JInt(0)],
     [title |-> JStr(<<"a">>), year |-> JInt(0 - 5)],
     [title |-> JStr(<<"a">>)],
     [title |-> JStr(<<"a">>), year |-> JStr(<<"a">>)],
     [title |-> JStr(<<" ">>), year |-> JInt(1)]}

LoadLines == {BlankLine, BadLine} \cup {ObjLine(r) : r \in LoadRecords}

\* the ways the lines are given: as one file, cut in two files, or with a
\* file that does not exist before or after
LoadShapes == {"one", "cut", "missing last", "missing first"}

LoadInput(ls, shape, c) ==
    CASE shape = "one" -> <<File(ls)>>
      [] shape = "cut" -> <<File(SubSeq(ls, 1, c)), File(SubSeq(ls, c + 1, Len(ls)))>>
      [] shape = "missing last" -> <<File(ls), MissingFile>>
      [] OTHER -> <<MissingFile, File(ls)>>

\* a paper as load_jsonl gives it for a record with these fields
Paper(title, year, domain, action_hint) ==
    Normalized([title |-> JStr(title), year |-> JInt(year), domain |-> JStr(domain),
                actionable_insight |-> JStr(<<"i">>),
                action_hint |-> JStr(action_hint)],
               title, year)

\* domain strings: every key of LABEL_MAP, and strings that are no key
DomainStrings ==
    {<<d>> : d \in DOMAIN LABEL_MAP}
    \cup {<<"unmapped-tag-xyz">>, <<"Travel">>, <<"travel", " ">>,
          <<"crisis-management", "travel">>, <<"emergency">>}

\* corpora of the synthesizer: one paper of every domain string, alone or
\* before a second paper
BuildCorpora ==
    {<<Paper(<<"a">>, 2, d, h)>> : d \in DomainStrings, h \in {<<"u">>, <<"v">>}}
    \cup {<<Paper(<<"a">>, 2, d, <<"u">>), Paper(<<"b">>, 1, e, <<"v">>)>> :
             d \in DomainStrings,
             e \in {<<"recovery">>, <<"innovation">>, <<"planning">>}}
    \cup {<<>>}

\* a record of the input file of a merging run
MergeRecord(title, domain, action_hint) ==
    [title |-> JStr(title), year |-> JInt(1), domain |-> JStr(<<domain>>),
     actionable_insight |-> JStr(<<"i">>), action_hint |-> JStr(action_hint)]

\* the records of those files: papers of two titles and two domains that
\* share their insight, one with an action hint that holds a newline
\* character (written \u000a in the file)
MergeRecords ==
    {MergeRecord(<<"a">>, "travel", <<"u">>),
     MergeRecord(<<"b">>, "travel", <<"u">>),
     MergeRecord(<<"b">>, "recovery", <<"v">>),
     MergeRecord(<<"b">>, "travel", <<"u", "\n", "u">>)}

\* the corpora load_jsonl gives for one input file of these records
Corpora ==
    {load_jsonl(<<File([k \in 1..Len(rs) |-> ObjLine(rs[k])])>>).papers :
        rs \in SeqsUpTo(MergeRecords, MaxPapers)}

\* rows a base file holds before the first merge: rows an earlier run wrote,
\* and rows edited by hand (padded, lower-cased, with a field more or less,
\* without a prompt)
BaseRows ==
    {[prompt |-> NeuroPrompt, label |-> <<"travel_design_journey_ops">>,
      next_action |-> <<"u">>],
     [prompt |-> <<" ">> \o Lower(NeuroPrompt) \o <<" ">>,
      label |-> <<"travel_design_recovery">>, note |-> <<"kept">>],
     [prompt |-> <<"Research-backed travel design execution request: ", "i">>,
      label |-> <<"travel_design_recovery">>, next_action |-> <<"u">>],
     [label |-> <<"x">>, note |-> <<"kept">>]}

Bases ==
    {[exists |-> FALSE, rows |-> <<>>]}
    \cup {[exists |-> TRUE, rows |-> rows] : rows \in SeqsUpTo(BaseRows, MaxBase)}

(***************************************************************************)
(* load_jsonl as one step                                                  *)
(***************************************************************************)
NoArgs == [queries |-> <<>>, pages |-> 0, from_year |-> 0, max_papers |-> 0,
           sleep_ms |-> 0]

IdleFetch ==
    /\ args = NoArgs
    /\ query = 0
    /\ page = 0
    /\ dedup = <<>>
    /\ requests = 0
    /\ last_event = "none"
    /\ outcome = "none"

IdleRace ==
    /\ procs = <<>>
    /\ events = <<>>

IdleMerge ==
    /\ base = [exists |-> FALSE, rows |-> <<>>]
    /\ existing = <<>>
    /\ prompt_to_index = <<>>
    /\ merged = <<>>
    /\ added = 0
    /\ updated = 0
    /\ pos = 0
    /\ ret = NoReturn
    /\ calls = 0
    /\ repeat = FALSE

InitLoad ==
    /\ \E ls \in SeqsUpTo(LoadLines, MaxLines) :
          \E shape \in LoadShapes :
             \E c \in 0..Len(ls) :
                 inputs = LoadInput(ls, shape, c)
    /\ loaded = NoResult
    /\ papers = <<>>
    /\ training_rows = <<>>
    /\ IdleMerge
    /\ IdleFetch
    /\ IdleRace
    /\ pc = "load"

Load ==
    /\ pc = "load"
    /\ loaded' = load_jsonl(inputs)
    /\ pc' = "loaded"
    /\ UNCHANGED <<inputs, papers, training_rows, mergeVars, fetchVars, raceVars>>

NextLoad == Load

SpecLoad == InitLoad /\ [][NextLoad]_vars

(***************************************************************************)
(* build_training_rows as one step                                         *)
(***************************************************************************)
InitBuild ==
    /\ inputs = <<>>
    /\ loaded = NoResult
    /\ papers \in BuildCorpora
    /\ training_rows = <<>>
    /\ IdleMerge
    /\ IdleFetch
    /\ IdleRace
    /\ pc = "build"

Build ==
    /\ pc = "build"
    /\ training_rows' = build_training_rows(papers)
    /\ pc' = "built"
    /\ UNCHANGED <<loadVars, papers, mergeVars, fetchVars, raceVars>>

NextBuild == Build

SpecBuild == InitBuild /\ [][NextBuild]_vars

(***************************************************************************)
(* Runs of main with --merge-into-base, one after the other on one base    *)
(* file.  merge_into_base goes step by step: the read and the index, one   *)
(* step per generated row, the write and the return.                       *)
(***************************************************************************)
Init ==
    /\ inputs = <<>>
    /\ loaded = NoResult
    /\ papers = <<>>
    /\ training_rows = <<>>
    /\ base \in Bases
    /\ existing = <<>>
    /\ prompt_to_index = <<>>
    /\ merged = <<>>
    /\ added = 0
    /\ updated = 0
    /\ pos = 0
    /\ ret = NoReturn
    /\ calls = 0
    /\ repeat = FALSE
    /\ IdleFetch
    /\ IdleRace
    /\ pc = "idle"

\* the same rows as the call before, which returned
IsRepeat(corpus) == calls >= 1 /\ ret.status = "ok" /\ corpus = papers

\* lines 330 and 210..227: the rows are generated, the file is read
MergeStart(corpus) ==
    /\ pc = "idle"
    /\ calls < MaxCalls
    /\ ReadBase(base).error = ""
    /\ papers' = corpus
    /\ training_rows' = build_training_rows(corpus)
    /\ repeat' = IsRepeat(corpus)
    /\ existing' = ReadBase(base).rows
    /\ prompt_to_index' = BuildIndex(ReadBase(base).rows)
    /\ merged' = ReadBase(base).rows
    /\ added' = 0
    /\ updated' = 0
    /\ pos' = 1
    /\ pc' = "loop"
    /\ UNCHANGED <<loadVars, base, ret, calls, fetchVars, raceVars>>

\* line 217 raises: the run ends, the file is as it was
MergeReadError(corpus) ==
    /\ pc = "idle"
    /\ calls < MaxCalls
    /\ ReadBase(base).error /= ""
    /\ papers' = corpus
    /\ training_rows' = build_training_rows(corpus)
    /\ repeat' = IsRepeat(corpus)
    /\ ret' = [status |-> ReadBase(base).error, added |-> 0, updated |-> 0,
               total |-> 0]
    /\ calls' = calls + 1
    /\ UNCHANGED <<loadVars, base, mergeLocals, pc, fetchVars, raceVars>>

\* lines 228..241: the key of the row is in the index
MergeUpdate ==
    /\ pc = "loop"
    /\ pos <= Len(training_rows)
    /\ LET row == training_rows[pos]
           key == NormKey(row.prompt)
       IN  /\ key \in DOMAIN prompt_to_index
           /\ LET idx == prompt_to_index[key] IN
              /\ merged' = [merged EXCEPT ![idx] = UpdateRow(merged[idx], row)]
              /\ updated' = IF Changed(merged[idx], row) THEN updated + 1 ELSE updated
    /\ pos' = pos + 1
    /\ UNCHANGED <<loadVars, papers, training_rows, base, existing,
                   prompt_to_index, added, ret, calls, repeat, pc, fetchVars,
                   raceVars>>

\* lines 228..230 and 242..248: the key is new
MergeAppend ==
    /\ pc = "loop"
    /\ pos <= Len(training_rows)
    /\ LET row == training_rows[pos]
           key == NormKey(row.prompt)
       IN  /\ key \notin DOMAIN prompt_to_index
           /\ merged' = Append(merged, AppendedRow(row))
           /\ prompt_to_index' = Put(prompt_to_index, key, Len(merged) + 1)
    /\ added' = added + 1
    /\ pos' = pos + 1
    /\ UNCHANGED <<loadVars, papers, training_rows, base, existing, updated, ret,
                   calls, repeat, pc, fetchVars, raceVars>>

\* lines 250..251: the file is rewritten, the counts are returned
MergeFinish ==
    /\ pc = "loop"
    /\ pos > Len(training_rows)
    /\ base' = write_jsonl(merged)
    /\ ret' = [status |-> "ok", added |-> added, updated |-> updated,
               total |-> Len(merged)]
    /\ calls' = calls + 1
    /\ existing' = <<>>
    /\ prompt_to_index' = <<>>
    /\ merged' = <<>>
    /\ added' = 0
    /\ updated' = 0
    /\ pos' = 0
    /\ pc' = "idle"
    /\ UNCHANGED <<loadVars, papers, training_rows, repeat, fetchVars, raceVars>>

Next ==
    \/ \E corpus \in Corpora : MergeStart(corpus)
    \/ \E corpus \in Corpora : MergeReadError(corpus)
    \/ MergeUpdate
    \/ MergeAppend
    \/ MergeFinish

Spec == Init /\ [][Next]_vars


(***************************************************************************)
(* Properties of the base merger                                           *)
(***************************************************************************)
\* the merge key as the specification defines it: trimmed, lower-cased
ClaimKey(prompt) == Lower(Strip(prompt))

\* the merge key of a persisted row; a row without a prompt has the empty key
RowKey(row) == IF "prompt" \in DOMAIN row THEN ClaimKey(row.prompt) ELSE <<>>

UniquePrompts(rows) ==
    \A i, j \in 1..Len(rows) : i /= j => RowKey(rows[i]) /= RowKey(rows[j])

\* the positions of rows whose key is key
Matching(rows, key) == {j \in 1..Len(rows) : RowKey(rows[j]) = key}

\* a step of the loop of line 228 is about to handle training_rows[pos]
AtRow == pc = "loop" /\ pos <= Len(training_rows)

FieldDiffers(old, row) ==
    \/ "label" \notin DOMAIN old
    \/ old.label /= row.label
    \/ "next_action" \notin DOMAIN old
    \/ old.next_action /= row.next_action

\* C1: merging the same generated rows twice in a row returns added = 0 and
\* updated = 0 the second time and leaves the file as the first merge left it,
\* also when several generated rows share a normalized prompt.
C1_MergeIdempotent ==
    [][(pc = "loop" /\ pc' = "idle" /\ repeat)
          => (ret'.added = 0 /\ ret'.updated = 0 /\ base' = base)]_vars

\* C2: a merge keeps the normalized prompts of the file pairwise distinct: a
\* file that does not exist, or whose rows have pairwise distinct normalized
\* prompts, never comes to hold two rows with the same normalized prompt.
C2_PromptsStayUnique ==
    [][UniquePrompts(base.rows) => UniquePrompts(base'.rows)]_vars

\* a merge matched a generated prompt against a row stored padded or in
\* another case, updated it, appended other rows, and the keys are distinct
C2_Witness ==
    /\ pc = "idle"
    /\ ret.status = "ok"
    /\ ret.added >= 1
    /\ ret.updated >= 1
    /\ UniquePrompts(base.rows)
    /\ \E i \in 1..Len(base.rows) :
          /\ "prompt" \in DOMAIN base.rows[i]
          /\ base.rows[i].prompt /= RowKey(base.rows[i])
          /\ \E k \in 1..Len(training_rows) :
                /\ ClaimKey(training_rows[k].prompt) = RowKey(base.rows[i])
                /\ training_rows[k].prompt /= base.rows[i].prompt

\* C3: a generated row whose normalized prompt matches a row of the dataset
\* sets that row's label and next_action to its own, counts one update exactly
\* when label or next_action differed, appends nothing and changes no other
\* row; when both fields matched already nothing changes and nothing is
\* counted.
C3_UpdateDetection ==
    [][(AtRow /\ Matching(merged, ClaimKey(training_rows[pos].prompt)) /= {})
          => LET row == training_rows[pos] IN
             \E idx \in Matching(merged, ClaimKey(row.prompt)) :
                /\ Len(merged') = Len(merged)
                /\ {"label", "next_action"} \subseteq DOMAIN merged'[idx]
                /\ merged'[idx].label = row.label
                /\ merged'[idx].next_action = row.next_action
                /\ \A j \in 1..Len(merged) : j /= idx => merged'[j] = merged[j]
                /\ updated' = IF FieldDiffers(merged[idx], row)
                              THEN updated + 1
                              ELSE updated
                /\ added' = added
                /\ ~FieldDiffers(merged[idx], row) => merged' = merged]_vars

\* the loop has updated a loaded row, counted it, and appended nothing
C3_Witness ==
    /\ pc = "loop"
    /\ updated = 1
    /\ added = 0
    /\ pos >= 3
    /\ Len(merged) = Len(existing)
    /\ \E j \in 1..Len(existing) :
          /\ merged[j] /= existing[j]
          /\ {"label", "next_action"} \subseteq DOMAIN merged[j]
          /\ merged[j].label = training_rows[pos - 1].label
          /\ merged[j].next_action = training_rows[pos - 1].next_action
          /\ RowKey(merged[j]) = ClaimKey(training_rows[pos - 1].prompt)

\* C4: a generated row whose normalized prompt matches no row of the dataset
\* (loaded, or appended earlier in the same merge) appends exactly one row
\* holding only prompt, label and next_action and counts one addition; the
\* total returned is the number of rows loaded plus the additions returned.
C4_Addition ==
    [][/\ (AtRow /\ Matching(merged, ClaimKey(training_rows[pos].prompt)) = {})
             => LET row == training_rows[pos] IN
                /\ merged' = Append(merged, [prompt |-> row.prompt,
                                             label |-> row.label,
                                             next_action |-> row.next_action])
                /\ added' = added + 1
                /\ updated' = updated
       /\ (pc = "loop" /\ pc' = "idle")
             => /\ ret'.added = added
                /\ ret'.total = Len(existing) + ret'.added
                /\ ret'.total = Len(base'.rows)]_vars

\* a merge on a file that held rows returned additions, and the total is the
\* number of rows of the file
C4_Witness ==
    /\ pc = "idle"
    /\ ret.status = "ok"
    /\ ret.added >= 2
    /\ ret.total > ret.added
    /\ ret.total = Len(base.rows)
    /\ DOMAIN base.rows[ret.total] = {"prompt", "label", "next_action"}

\* the last position of a loaded row with the key of the loaded row k
LastDuplicate(k) ==
    LET same == Matching(existing, RowKey(existing[k]))
    IN  CHOOSE j \in same : \A i \in same : i <= j

\* the first position of a loaded row with the key of the loaded row k
FirstDuplicate(k) ==
    LET same == Matching(existing, RowKey(existing[k]))
    IN  CHOOSE j \in same : \A i \in same : j <= i

\* C9 as stated: of several loaded rows with the same normalized prompt the
\* index holds the first, a generated row with that prompt updates the first
\* and leaves the later ones as loaded, and the merge raises no error.
C9_FirstOccurrenceWins ==
    /\ pc = "loop"
          => \A k \in 1..Len(existing) :
                RowKey(existing[k]) /= <<>>
                   => /\ prompt_to_index[RowKey(existing[k])] = FirstDuplicate(k)
                      /\ k /= FirstDuplicate(k) => merged[k] = existing[k]
    /\ ret.status \in {"none", "ok"}
          \/ \E k \in 1..Len(base.rows) :
                \E f \in DOMAIN base.rows[k] : HasNewline(base.rows[k][f])

\* C9 amended: of several loaded rows with the same (non-empty) normalized
\* prompt the index holds the last, a generated row with that prompt updates
\* the last and leaves the earlier ones as loaded; a merge raises an error
\* only on a file it cannot parse, never because of duplicates.
C9_LastOccurrenceWins ==
    /\ pc = "loop"
          => \A k \in 1..Len(existing) :
                RowKey(existing[k]) /= <<>>
                   => /\ prompt_to_index[RowKey(existing[k])] = LastDuplicate(k)
                      /\ k /= LastDuplicate(k) => merged[k] = existing[k]
    /\ ret.status \in {"none", "ok"}
          \/ \E k \in 1..Len(base.rows) :
                \E f \in DOMAIN base.rows[k] : HasNewline(base.rows[k][f])

\* the loop is over on a file with two rows of one key: the later one was
\* updated, the earlier one is as loaded
C9_Witness ==
    /\ pc = "loop"
    /\ pos > Len(training_rows)
    /\ \E i, j \in 1..Len(existing) :
          /\ i < j
          /\ RowKey(existing[i]) = RowKey(existing[j])
          /\ RowKey(existing[i]) /= <<>>
          /\ merged[j] /= existing[j]
          /\ merged[i] = existing[i]

\* the position in training_rows of the first row with the key of prompt
FirstGenerated(prompt) ==
    CHOOSE g \in 1..Len(training_rows) :
        /\ ClaimKey(training_rows[g].prompt) = ClaimKey(prompt)
        /\ \A h \in 1..(g - 1) :
              ClaimKey(training_rows[h].prompt) /= ClaimKey(prompt)

\* C10: the rows written back begin with the loaded rows, in their order; a
\* loaded row whose normalized prompt matches no generated row is written as
\* loaded; of a matched row only label and next_action can differ from what
\* was loaded; the appended rows follow, in the order of the generated rows.
C10_MergeFrame ==
    [][(pc = "loop" /\ pc' = "idle")
          => LET out == base'.rows
                 n == Len(existing)
             IN  /\ Len(out) >= n
                 /\ \A k \in 1..n :
                       /\ DOMAIN out[k] \subseteq
                             DOMAIN existing[k] \cup {"label", "next_action"}
                       /\ \A f \in DOMAIN existing[k] \ {"label", "next_action"} :
                             f \in DOMAIN out[k] /\ out[k][f] = existing[k][f]
                       /\ (\A g \in 1..Len(training_rows) :
                              ClaimKey(training_rows[g].prompt) /= RowKey(existing[k]))
                             => out[k] = existing[k]
                 /\ \A m \in (n + 1)..Len(out) :
                       /\ out[m].prompt = training_rows[FirstGenerated(out[m].prompt)].prompt
                       /\ \A l \in (n + 1)..(m - 1) :
                             FirstGenerated(out[l].prompt) < FirstGenerated(out[m].prompt)]_vars

\* a merge was written: a loaded row without a prompt is as loaded, a loaded
\* row with a further field and no next_action was updated and kept its
\* prompt and the field, and rows were appended after them
C10_Witness ==
    /\ pc = "idle"
    /\ ret.status = "ok"
    /\ ret.updated >= 1
    /\ ret.added >= 2
    /\ Len(base.rows) >= 4
    /\ base.rows[1] = [label |-> <<"x">>, note |-> <<"kept">>]
    /\ DOMAIN base.rows[2] = {"prompt", "label", "next_action", "note"}
    /\ base.rows[2].prompt = <<" ">> \o Lower(NeuroPrompt) \o <<" ">>
    /\ base.rows[2].note = <<"kept">>

(***************************************************************************)
(* Properties of the loader                                                *)
(***************************************************************************)
\* the lines of all the input files, in processing order
InputLines ==
    LET upTo[k \in 0..Len(inputs)] ==
            IF k = 0 THEN <<>> ELSE upTo[k - 1] \o inputs[k].lines
    IN  upTo[Len(inputs)]

\* the line holds a record that is neither rejected nor skipped
IsKept(line) ==
    /\ line.t = "obj"
    /\ RawYear(line.row).ok
    /\ ~IsDropped(RawTitle(line.row), RawYear(line.row).n)

\* the valid records, normalized, in processing order
ValidRecords ==
    LET kept == SelectSeq(InputLines, IsKept)
    IN  [k \in 1..Len(kept) |->
            Normalized(kept[k].row, RawTitle(kept[k].row), RawYear(kept[k].row).n)]

\* C5: the list load_jsonl returns holds exactly one paper for every distinct
\* (lower-cased title, year) among the valid records of all the sources, and
\* that paper is, field for field, the last valid record with that key in
\* processing order.
C5_LastRecordWins ==
    (pc = "loaded" /\ loaded.error = "")
       => LET recs == ValidRecords
              out == loaded.papers
              Key(r) == <<Lower(r.title), r.year>>
          IN  /\ \A k \in 1..Len(recs) :
                    Cardinality({j \in 1..Len(out) : Key(out[j]) = Key(recs[k])}) = 1
              /\ \A j \in 1..Len(out) :
                    \E k \in 1..Len(recs) :
                       /\ out[j] = recs[k]
                       /\ \A m \in (k + 1)..Len(recs) : Key(recs[m]) /= Key(recs[k])

\* two files were loaded, the second holds a record with the key of a record
\* of the first and other fields, and the one paper returned is the second
C5_Witness ==
    /\ pc = "loaded"
    /\ loaded.error = ""
    /\ Len(inputs) = 2
    /\ Len(inputs[1].lines) >= 1
    /\ Len(inputs[2].lines) >= 1
    /\ Len(ValidRecords) = 2
    /\ Len(loaded.papers) = 1
    /\ loaded.papers[1] = ValidRecords[2]
    /\ loaded.papers[1].title /= ValidRecords[1].title
    /\ loaded.papers[1].domain /= ValidRecords[1].domain

\* a record the Drop rule names: the title is empty after trimming, or the
\* year is missing, not a number, zero or negative
IsInvalidRecord(row) ==
    \/ RawTitle(row) = <<>>
    \/ "year" \notin DOMAIN row
    \/ ~PyInt(row.year).ok
    \/ PyInt(row.year).n <= 0

\* the input files without the lines that hold an invalid record
WithoutInvalid ==
    LET Stays(line) == ~(line.t = "obj" /\ IsInvalidRecord(line.row))
    IN  [k \in 1..Len(inputs) |->
            [exists |-> inputs[k].exists,
             lines |-> SelectSeq(inputs[k].lines, Stays)]]

\* C6: an invalid record is skipped silently: when every file exists and
\* every line parses, load_jsonl raises nothing and returns what it returns
\* for the same files without the invalid records.
C6_InvalidRecordsSkipped ==
    (/\ pc = "loaded"
     /\ \A k \in 1..Len(inputs) : inputs[k].exists
     /\ \A k \in 1..Len(InputLines) : InputLines[k].t /= "bad")
       => /\ loaded.error = ""
          /\ loaded.papers = load_jsonl(WithoutInvalid).papers

(***************************************************************************)
(* Properties of the classifier and the synthesizer                        *)
(***************************************************************************)
NineLabels ==
    {"travel_design_recovery", "travel_design_strategy", "travel_design_execution",
     "travel_design_emergency_command", "travel_design_human_problem_solving",
     "travel_design_tech_innovation", "travel_design_journey_ops",
     "travel_design_revenue", "travel_design_resilience"}

BonusGroups == {NeuroDomains, EmergencyDomains, HumanDomains, InnovationDomains}

\* the number of rows the claim gives a paper: 4 in a bonus group, else 3
ClaimedRows(paper) ==
    IF \E G \in BonusGroups : \E w \in G : paper.domain = <<w>> THEN 4 ELSE 3

\* the number of rows claimed for the first k papers
ClaimedRowsUpTo(k) ==
    LET upTo[n \in 0..Len(papers)] ==
            IF n = 0 THEN 0 ELSE upTo[n - 1] + ClaimedRows(papers[n])
    IN  upTo[k]

\* C7: every paper yields its three base rows and one row more when its
\* domain is in a bonus group; the four groups are pairwise disjoint, so a
\* paper yields 3 or 4 rows, and the rows of a corpus are the rows of its
\* papers, in order.
C7_RowCount ==
    /\ \A G, H \in BonusGroups : G /= H => G \cap H = {}
    /\ pc = "built"
          => /\ Len(training_rows) = ClaimedRowsUpTo(Len(papers))
             /\ \A k \in 1..Len(papers) :
                   \A r \in (ClaimedRowsUpTo(k - 1) + 1)..ClaimedRowsUpTo(k) :
                      /\ r <= Len(training_rows)
                      /\ training_rows[r].paper_id = papers[k].id
                      /\ r <= ClaimedRowsUpTo(k - 1) + 3
                            => training_rows[r].prompt \notin
                                  {NeuroPrompt, EmergencyPrompt, HumanPrompt,
                                   InnovationPrompt}

\* a paper of domain crisis-management gave 4 rows, the last the emergency
\* brief
C7_Witness ==
    /\ pc = "built"
    /\ Len(papers) = 1
    /\ papers[1].domain = <<"crisis-management">>
    /\ Len(training_rows) = 4
    /\ training_rows[4].prompt = EmergencyPrompt

\* C8: every row of a paper carries the label of the paper's domain, which is
\* the LABEL_MAP entry when the domain is a key of the table and
\* travel_design_strategy otherwise, one of the nine labels in either case,
\* and the paper's action_hint as next_action.
C8_LabelAndAction ==
    pc = "built"
       => /\ Len(training_rows) = ClaimedRowsUpTo(Len(papers))
          /\ \A k \in 1..Len(papers) :
                LET d == papers[k].domain
                    expected == IF \E w \in DOMAIN LABEL_MAP : d = <<w>>
                                THEN LABEL_MAP[d[1]]
                                ELSE "travel_design_strategy"
                IN  /\ expected \in NineLabels
                    /\ \A r \in (ClaimedRowsUpTo(k - 1) + 1)..ClaimedRowsUpTo(k) :
                          /\ training_rows[r].label = <<expected>>
                          /\ training_rows[r].next_action = papers[k].action_hint

\* a paper of an unmapped domain gave rows labelled travel_design_strategy,
\* before a paper whose rows carry the label of its own domain
C8_Witness ==
    /\ pc = "built"
    /\ Len(papers) = 2
    /\ papers[1].domain = <<"unmapped-tag-xyz">>
    /\ papers[2].domain = <<"innovation">>
    /\ Len(training_rows) = 7
    /\ training_rows[3].label = <<"travel_design_strategy">>
    /\ training_rows[3].next_action = <<"u">>
    /\ training_rows[4].label = <<"travel_design_tech_innovation">>
    /\ training_rows[4].next_action = <<"v">>

(***************************************************************************)
(* scripts/fetch_openalex_atlas_papers.py: the fetch loop of main.  A      *)
(* query is a sequence of words; a keyword is in the query when it is one  *)
(* of its words.  The row of a work holds the fields the loop reads        *)
(* again; the texts derived from the abstract are left out.                *)
(***************************************************************************)
MaxQueries == 2    \* queries of one run of the fetcher
MaxPages == 2      \* the greatest value of --pages

\* any(k in q for k in ks)
AnyIn(q, ks) == \E i \in 1..Len(q) : q[i] \in ks

domain_from_query(q) ==
    LET low == Lower(q) IN
    IF AnyIn(low, {"financial", "savings", "revenue", "wealth"})
    THEN <<"wealth">>
    ELSE IF AnyIn(low, {"transport", "mobility", "driving", "travel"})
    THEN <<"travel">>
    ELSE IF AnyIn(low, {"stress", "resilience", "trauma", "safety"})
    THEN <<"resilience">>
    ELSE IF AnyIn(low, {"sleep", "recovery", "wellbeing", "health"})
    THEN <<"recovery">>
    ELSE IF AnyIn(low, {"time management", "productivity", "habit", "goal",
                        "implementation"})
    THEN <<"execution">>
    ELSE <<"planning">>

\* wid.rsplit('/', 1)[-1]
LastSegment(s) ==
    LET slashes == {i \in 1..Len(s) : s[i] = "/"} IN
    IF slashes = {} THEN s
    ELSE LET k == CHOOSE i \in slashes : \A j \in slashes : j <= i
         IN  SubSeq(s, k + 1, Len(s))

\* lines 164..172: the work is passed over
WorkSkipped(work, from_year) ==
    \/ Strip(work.id) = <<>>
    \/ Strip(work.display_name) = <<>>
    \/ work.publication_year < from_year
    \/ work.abstract = <<>>

\* lines 183..194
WorkRow(work, domain) ==
    [id |-> Lower(LastSegment(Strip(work.id))),
     title |-> Strip(work.display_name),
     year |-> work.publication_year,
     domain |-> domain,
     action_hint |-> <<"Apply one ">> \o domain
                        \o <<" action today and verify outcome with a checkpoint.">>]

\* the key of line 195
WorkKey(work) == <<Lower(Strip(work.display_name)), work.publication_year>>

RECURSIVE StoreWorks(_, _, _, _, _)
\* the loop of lines 163..197 from position k on, d being dedup so far
StoreWorks(results, k, d, domain, a) ==
    IF k > Len(results) THEN d
    ELSE IF WorkSkipped(results[k], a.from_year)
         THEN StoreWorks(results, k + 1, d, domain, a)
         ELSE LET d2 == Put(d, WorkKey(results[k]), WorkRow(results[k], domain))
              IN  IF Cardinality(DOMAIN d2) >= a.max_papers
                  THEN d2
                  ELSE StoreWorks(results, k + 1, d2, domain, a)

\* max(1, args.pages): the last page asked of a query
LastPage == IF args.pages > 1 THEN args.pages ELSE 1

\* the queries of a run, as lines 115..132 leave them: not empty, stripped,
\* no two equal when lower-cased
FetchQueries ==
    {qs \in SeqsUpTo({<<"sleep", "deprivation">>, <<"mobility", "wellbeing">>,
                      <<"decision", "theory">>}, MaxQueries) :
        /\ Len(qs) >= 1
        /\ \A i, j \in 1..Len(qs) : i /= j => qs[i] /= qs[j]}

FetchArgs ==
    {[queries |-> qs, pages |-> p, from_year |-> 1990, max_papers |-> m,
      sleep_ms |-> 200] :
        qs \in FetchQueries, p \in 0..MaxPages, m \in {1, 2, 25000}}

Work(id, display_name, publication_year, abstract) ==
    [id |-> id, display_name |-> display_name,
     publication_year |-> publication_year, abstract |-> abstract]

\* pages of results the API answers with: works that are stored, the same
\* title in another case, a work before from_year, a work with no abstract
ResultPages ==
    {<<Work(<<"https:", "/", "W", "1">>, <<"a">>, 2000, <<"t">>)>>,
     <<Work(<<"W", "1">>, <<"a">>, 2000, <<"t">>),
       Work(<<"W", "2">>, <<"A">>, 2000, <<"t">>),
       Work(<<"W", "3">>, <<"b">>, 1999, <<"t">>)>>,
     <<Work(<<"W", "4">>, <<"b">>, 1980, <<"t">>),
       Work(<<"W", "5">>, <<"b">>, 2001, <<>>)>>}

InitFetch ==
    /\ inputs = <<>>
    /\ loaded = NoResult
    /\ papers = <<>>
    /\ training_rows = <<>>
    /\ IdleMerge
    /\ IdleRace
    /\ args \in FetchArgs
    /\ query = 1
    /\ page = 1
    /\ dedup = <<>>
    /\ requests = 0
    /\ last_event = "none"
    /\ outcome = "none"
    /\ pc = "request"

notFetch == <<loadVars, papers, training_rows, mergeVars, raceVars>>

\* the loop of line 140 goes to its next page, or is over
NextPage ==
    IF page < LastPage
    THEN query' = query /\ page' = page + 1 /\ pc' = "request"
    ELSE IF query < Len(args.queries)
         THEN query' = query + 1 /\ page' = 1 /\ pc' = "request"
         ELSE query' = query /\ page' = page /\ pc' = "done"

\* the loop of line 140 is left: the loop of line 138 goes to its next query
NextQuery ==
    IF query < Len(args.queries)
    THEN query' = query + 1 /\ page' = 1 /\ pc' = "request"
    ELSE query' = query /\ page' = page /\ pc' = "done"

\* lines 150..154: fetch_json raises, the warning is printed, continue
FetchRaises ==
    /\ pc = "request"
    /\ requests' = requests + 1
    /\ last_event' = "request"
    /\ outcome' = "failed"
    /\ NextPage
    /\ UNCHANGED <<args, dedup, notFetch>>

\* lines 151..158: the page has no results, break
FetchEmpty ==
    /\ pc = "request"
    /\ requests' = requests + 1
    /\ last_event' = "request"
    /\ outcome' = "empty"
    /\ NextQuery
    /\ UNCHANGED <<args, dedup, notFetch>>

\* lines 151..200: the page has results; they are stored, and the cap on the
\* papers ends the two loops (lines 199..200 and 203..204)
FetchResults(results) ==
    /\ pc = "request"
    /\ requests' = requests + 1
    /\ last_event' = "request"
    /\ outcome' = "results"
    /\ dedup' = StoreWorks(results, 1, dedup,
                           domain_from_query(args.queries[query]), args)
    /\ pc' = IF Cardinality(DOMAIN dedup') >= args.max_papers
             THEN "done"
             ELSE "sleep"
    /\ UNCHANGED <<args, query, page, notFetch>>

\* line 202: time.sleep, then the next page
Sleep ==
    /\ pc = "sleep"
    /\ last_event' = "sleep"
    /\ NextPage
    /\ UNCHANGED <<args, dedup, requests, outcome, notFetch>>

NextFetch ==
    \/ FetchRaises
    \/ FetchEmpty
    \/ \E results \in ResultPages : FetchResults(results)
    \/ Sleep

SpecFetch == InitFetch /\ [][NextFetch]_vars

(***************************************************************************)
(* Properties of the fetch loop                                            *)
(***************************************************************************)
\* C11: time.sleep runs between any two consecutive calls of fetch_json of a
\* run: when a request is issued and it is not the first of the run, the
\* last of the two kinds of step to have run is the delay, whatever the
\* earlier request gave (results, an empty page, a failure) and also when the
\* request is the first of the next query.
C11_DelayBetweenRequests ==
    [][(requests >= 1 /\ requests' = requests + 1) => last_event = "sleep"]_vars

(***************************************************************************)
(* Two runs of main with --merge-into-base on one base file, as two        *)
(* processes.  A process reads the file and runs the loop of line 228 on   *)
(* its own copy (lines 211..248, one step: nothing of it is shared), then  *)
(* rewrites the file (lines 250..251, one step: the writes of the two      *)
(* processes follow one another).  Nothing orders the steps of the two     *)
(* processes.                                                              *)
(***************************************************************************)
Procs == {1, 2}

RECURSIVE MergeLoop(_, _, _, _, _, _)
\* the loop of lines 228..248 from position k of generated_rows on
MergeLoop(generated_rows, k, index, rows, nadded, nupdated) ==
    IF k > Len(generated_rows)
    THEN [merged |-> rows, added |-> nadded, updated |-> nupdated]
    ELSE LET row == generated_rows[k]
             key == NormKey(row.prompt)
         IN  IF key \in DOMAIN index
             THEN MergeLoop(generated_rows, k + 1, index,
                            [rows EXCEPT ![index[key]] = UpdateRow(rows[index[key]], row)],
                            nadded,
                            IF Changed(rows[index[key]], row)
                            THEN nupdated + 1
                            ELSE nupdated)
             ELSE MergeLoop(generated_rows, k + 1,
                            Put(index, key, Len(rows) + 1),
                            Append(rows, AppendedRow(row)),
                            nadded + 1, nupdated)

\* lines 211..248 on the rows read from the file
MergeRows(rows, generated_rows) ==
    MergeLoop(generated_rows, 1, BuildIndex(rows), rows, 0, 0)

\* a process before it calls merge_into_base
Starting(corpus) ==
    [pc |-> "start", generated_rows |-> build_training_rows(corpus),
     existing |-> <<>>, merged |-> <<>>, ret |-> NoReturn]

InitRace ==
    /\ inputs = <<>>
    /\ loaded = NoResult
    /\ papers = <<>>
    /\ training_rows = <<>>
    /\ base \in Bases
    /\ existing = <<>>
    /\ prompt_to_index = <<>>
    /\ merged = <<>>
    /\ added = 0
    /\ updated = 0
    /\ pos = 0
    /\ ret = NoReturn
    /\ calls = 0
    /\ repeat = FALSE
    /\ IdleFetch
    /\ \E c1 \in Corpora : \E c2 \in Corpora :
          procs = [p \in Procs |-> Starting(IF p = 1 THEN c1 ELSE c2)]
    /\ events = <<>>
    /\ pc = "race"

notRace == <<loadVars, papers, training_rows, existing, prompt_to_index, merged,
             added, updated, pos, ret, calls, repeat, pc, fetchVars>>

\* lines 211..248: the process reads the file and merges into its copy
RaceRead(p) ==
    /\ procs[p].pc = "start"
    /\ ReadBase(base).error = ""
    /\ LET rows == ReadBase(base).rows
           out == MergeRows(rows, procs[p].generated_rows)
       IN  procs' = [procs EXCEPT ![p].pc = "merged",
                                  ![p].existing = rows,
                                  ![p].merged = out.merged,
                                  ![p].ret = [status |-> "none",
                                              added |-> out.added,
                                              updated |-> out.updated,
                                              total |-> Len(out.merged)]]
    /\ events' = Append(events, <<p, "read">>)
    /\ UNCHANGED <<base, notRace>>

\* line 217 raises: the process ends, it writes nothing
RaceReadError(p) ==
    /\ procs[p].pc = "start"
    /\ ReadBase(base).error /= ""
    /\ procs' = [procs EXCEPT ![p].pc = "done",
                              ![p].ret = [status |-> ReadBase(base).error,
                                          added |-> 0, updated |-> 0,
                                          total |-> 0]]
    /\ events' = Append(events, <<p, "raise">>)
    /\ UNCHANGED <<base, notRace>>

\* lines 250..251: the process rewrites the file with its copy and returns
RaceWrite(p) ==
    /\ procs[p].pc = "merged"
    /\ base' = write_jsonl(procs[p].merged)
    /\ procs' = [procs EXCEPT ![p].pc = "done", ![p].ret.status = "ok"]
    /\ events' = Append(events, <<p, "write">>)
    /\ UNCHANGED notRace

NextRace ==
    \/ \E p \in Procs : RaceRead(p)
    \/ \E p \in Procs : RaceReadError(p)
    \/ \E p \in Procs : RaceWrite(p)

SpecRace == InitRace /\ [][NextRace]_vars

(***************************************************************************)
(* Properties of concurrent merges                                         *)
(***************************************************************************)
\* the normalized prompts of rows
KeysOf(rows) == {RowKey(rows[k]) : k \in 1..Len(rows)}

\* the two merges are over
BothOver == \A p \in Procs : procs[p].pc = "done"

\* both processes read before either wrote, then both wrote
ReadReadWriteWrite ==
    /\ BothOver
    /\ Len(events) = 4
    /\ events[1][2] = "read"
    /\ events[2][2] = "read"

\* one merge was over before the other one began
OneAfterTheOther ==
    /\ BothOver
    /\ Len(events) >= 3
    /\ events[1][1] = events[2][1]
    /\ events[3][1] /= events[1][1]

\* after two reads and then two writes the file is what the later writer
\* alone makes of the file both read: a prompt only the earlier writer
\* generated is not in it, and a row only the earlier writer matched is as
\* it was read
LostUpdate ==
    ReadReadWriteWrite
       => LET early == events[3][1]
              late == events[4][1]
              read == procs[late].existing
          IN  /\ procs[early].existing = read
              /\ base = write_jsonl(MergeRows(read, procs[late].generated_rows).merged)
              /\ \A key \in KeysOf(procs[early].generated_rows) :
                    key \notin KeysOf(procs[late].generated_rows) \cup KeysOf(read)
                       => key \notin KeysOf(base.rows)
              /\ \A k \in 1..Len(read) :
                    RowKey(read[k]) \notin KeysOf(procs[late].generated_rows)
                       => base.rows[k] = read[k]

\* after two merges, one after the other, the file holds every normalized
\* prompt of both generated sets
SequentialKeepsAll ==
    OneAfterTheOther
       => \A p \in Procs : KeysOf(procs[p].generated_rows) \subseteq KeysOf(base.rows)

\* C12: merge_into_base reads the file once and rewrites it once, with no
\* lock or version check: when both merges read before either writes, the
\* final file is the later writer's result alone and what the earlier writer
\* added or updated is lost; two merges run one after the other leave every
\* normalized prompt of both generated sets in the file.
C12_NoLocking == LostUpdate /\ SequentialKeepsAll

=============================================================================
